---- MODULE Spec2Model ----
(***************************************************************************)
(* The appointment / billing layer of autoservice.py: the fixed clock, the *)
(* recording e-mail and notification doubles, the two SQLite repositories  *)
(* and the two managers that orchestrate them.                             *)
(*                                                                         *)
(* Spec runs the operations one call at a time with MockEmailService;      *)
(* SpecSpy does the same with a SpyEmailService around a real_service that *)
(* may not deliver; SpecCallers runs create_appointment statement by       *)
(* statement for concurrent callers.  SpecMock runs the UserModel methods  *)
(* of models.py on the MockConnection of mock_data.py.                     *)
(*                                                                         *)
(* Strings that the code inspects character by character (the contact      *)
(* address) are sequences of one-character strings; strings the code only  *)
(* compares (names, service types, dates) are TLA+ strings.  A datetime is *)
(* the number of hours since the clock's initial fixed_time.               *)
(***************************************************************************)
EXTENDS Integers, Sequences, FiniteSets, TLC

VARIABLES
    repo_path,      \* SqliteAppointmentRepository.db_path
    inv_path,       \* SqliteInvoiceRepository.db_path
    notif_on,       \* AutoServiceManager.notifications is not None
    real_service,   \* what the e-mail double's real_service.send does
    pc,             \* concurrent callers: where each is in create_appointment
    frame,          \* concurrent callers: the local variables of each
    files,          \* the database files on disk, by path
    _time,          \* FakeTimeProvider._time
    sent_emails,    \* MockEmailService.sent_emails
    call_count,     \* MockEmailService.call_count
    call_args,      \* SpyNotificationService.call_args
    notif_count,    \* SpyNotificationService.call_count
    last,           \* the last call made and what it returned or raised
    returned_ids,   \* history: ids returned by SqliteAppointmentRepository.create
    created,        \* history: the successful create_appointment calls
    deleted_ids,    \* history: ids whose delete returned True
    advanced,       \* history: hours added by all advance calls so far
    n_advance,      \* history: number of advance calls so far
    data,           \* MockConnection.data
    next_id,        \* MockConnection.next_id
    user_call       \* the last UserModel call made and what it returned

vars == <<repo_path, inv_path, notif_on, real_service, pc, frame, files, _time,
          sent_emails, call_count, call_args, notif_count, last, returned_ids,
          created, deleted_ids, advanced, n_advance, data, next_id,
          user_call>>

\* what the constructors fix: the paths and the injected services
wiring == <<repo_path, inv_path, notif_on, real_service>>

\* the concurrent callers' control state
callers == <<pc, frame>>

\* the mock connection and the UserModel on it
users == <<data, next_id, user_call>>

\* the appointment / billing layer
autoservice == <<wiring, callers, files, _time, sent_emails, call_count,
                 call_args, notif_count, last, returned_ids, created,
                 deleted_ids, advanced, n_advance>>

(***************************************************************************)
(* Bounds of the model.                                                    *)
(***************************************************************************)
MaxRows == 2        \* rows inserted into one database file, over all its tables
MaxAdvances == 1    \* calls of advance
MaxContactLen == 4  \* length of the contact strings the validator is tried on
MaxCallers == 2     \* concurrent callers of create_appointment
MaxUsers == 5       \* users held by the mock connection

(***************************************************************************)
(* Inputs.                                                                 *)
(***************************************************************************)
MEMORY == ":memory:"
SHOP_DB == "shop.db"
BILLING_DB == "billing.db"
FilePaths == {SHOP_DB, BILLING_DB}

None == [none |-> TRUE]

\* ServiceType enum values
ServiceType == <<"oil_change", "brake_check", "tire_rotation", "full_service">>

\* contact addresses, as character sequences
E_ab == <<"a", "@", "b", ".", "c">>          \* a@b.c
E_xy == <<"x", "@", "y", ".", "z">>          \* x@y.z
E_two == <<"a", "@", "b", ".", "c", "@", "d">> \* a@b.c@d
E_nolocal == <<"@", "b", ".", "c">>          \* @b.c
E_noat == <<"a", "b", ".", "c">>             \* ab.c
E_nodot == <<"a", "@", "b">>                 \* a@b
E_nodomain == <<"a", "@">>                   \* a@
E_dotfirst == <<"a", ".", "b", "@", "c">>    \* a.b@c
E_dotlate == <<"a", "@", "b", "@", "c", ".", "d">> \* a@b@c.d
E_empty == <<>>

\* (client_name, email, service_type, date_str) arguments of create_appointment:
\* the four valid service types with well-formed contacts, then every
\* malformed contact, unknown service types, and both at once
ValidAppointmentInputs ==
    { <<"Ana", E_ab, "oil_change", "2025-10-10">>,
      <<"Luis", E_xy, "brake_check", "2025-10-11">>,
      <<"Ana", E_two, "tire_rotation", "2025-10-10">>,
      <<"Luis", E_nolocal, "full_service", "2025-10-11">> }

InvalidAppointmentInputs ==
    { <<"Ana", e, "oil_change", "2025-10-10">> :
          e \in {E_noat, E_nodot, E_nodomain, E_dotfirst, E_dotlate, E_empty} }
    \cup { <<"Ana", E_ab, "invalid_service", "2025-10-10">>,
           <<"Luis", E_noat, "Oil_Change", "2025-10-11">> }

AppointmentInputs == ValidAppointmentInputs \cup InvalidAppointmentInputs

\* (appointment_id, client_email, service_type) arguments of create_invoice
InvoiceInputs ==
    { <<1, E_ab, "oil_change">>, <<1, E_xy, "brake_check">>,
      <<2, E_ab, "tire_rotation">>, <<2, E_xy, "full_service">>,
      <<1, E_ab, "invalid_service">> }

\* ids given to find_by_id, delete and find_by_appointment
IdInputs == 1..MaxRows

\* (hours, days) arguments of advance
AdvanceInputs == {<<5, 0>>, <<0, 1>>, <<0 - 1, 0>>}

(***************************************************************************)
(* Python string helpers.                                                  *)
(***************************************************************************)
\* c in s
Contains(s, c) == \E i \in 1..Len(s) : s[i] = c

\* s.split(sep) for a one-character separator
RECURSIVE Split(_, _)
Split(s, sep) ==
    IF ~Contains(s, sep) THEN <<s>>
    ELSE LET k == CHOOSE i \in 1..Len(s) :
                      s[i] = sep /\ \A j \in 1..(i - 1) : s[j] # sep
         IN <<SubSeq(s, 1, k - 1)>> \o Split(SubSeq(s, k + 1, Len(s)), sep)

(***************************************************************************)
(* datetime.isoformat / datetime.fromisoformat: the text holds the date    *)
(* and the time of day separately.                                         *)
(***************************************************************************)
isoformat(t) == <<t \div 24, t % 24>>
fromisoformat(text) == text[1] * 24 + text[2]

(***************************************************************************)
(* sqlite3: a database is the set of its tables, the rows of clients,      *)
(* appointments and invoices in rowid order, and the sqlite_sequence       *)
(* counters kept for AUTOINCREMENT columns.                                *)
(***************************************************************************)
EmptyDb == [tables |-> {}, clients |-> <<>>, appointments |-> <<>>,
            invoices |-> <<>>, seq_appointments |-> 0, seq_invoices |-> 0]

\* PRAGMA foreign_keys of a new connection: off, and no repository method
\* executes PRAGMA foreign_keys = ON
foreign_keys == FALSE

\* FOREIGN KEY (email) REFERENCES clients(email), where it is enforced
HasClient(conn, email) ==
    \E i \in 1..Len(conn.clients) : conn.clients[i].email = email

\* sqlite3.connect(path): ":memory:" is a new, empty, private database on
\* every connect; any other path is the file's database
connect(path) == IF path = MEMORY THEN EmptyDb ELSE files[path]

\* conn.commit(); conn.close(): a private in-memory database is discarded
commit_close(path, db) == IF path = MEMORY THEN files ELSE [files EXCEPT ![path] = db]

MaxOf(S) == IF S = {} THEN 0 ELSE CHOOSE m \in S : \A x \in S : x <= m

\* variant: the rowid of a plain INTEGER PRIMARY KEY (largest rowid in use + 1)
autoincrement_max_rowid(rows, seq) == MaxOf({rows[i].id : i \in 1..Len(rows)}) + 1

\* the rowid an INTEGER PRIMARY KEY AUTOINCREMENT column gives the next row
autoincrement(rows, seq) == MaxOf({seq} \cup {rows[i].id : i \in 1..Len(rows)}) + 1

\* rows ever inserted into the database at path (the model's bound)
RowsInserted(path) == connect(path).seq_appointments + connect(path).seq_invoices

\* SqliteAppointmentRepository._init_schema
_init_schema(path, fs) ==
    IF path = MEMORY THEN fs
    ELSE [fs EXCEPT ![path].tables = @ \cup {"clients", "appointments", "invoices"}]

(***************************************************************************)
(* FakeTimeProvider                                                        *)
(***************************************************************************)
now == _time

\* variant: the days argument is dropped
advance_hours_only(hours, days) == _time + hours

advance(hours, days) == _time + hours + 24 * days

(***************************************************************************)
(* The e-mail double (MockEmailService, or SpyEmailService around a        *)
(* real_service) and SpyNotificationService.notify: the log after the      *)
(* call.  The mock's send and notify return True; the spy's send gives     *)
(* what its real_service gives.                                            *)
(***************************************************************************)
DELIVERS == "delivers"      \* real_service.send returns True
FAILS == "fails"            \* real_service.send returns False
RAISES == "raises"          \* real_service.send raises

SendError == "Exception: send failed"

\* variant: the result of real_service.send is replaced by True
real_send_true == [raised |-> "", value |-> TRUE]

\* return self.real_service.send(to, subject, body)
real_send ==
    CASE real_service = DELIVERS -> [raised |-> "", value |-> TRUE]
      [] real_service = FAILS -> [raised |-> "", value |-> FALSE]
      [] real_service = RAISES -> [raised |-> SendError, value |-> None]

\* variant: the call is not recorded
send_unrecorded(to, subject, body) == sent_emails

send(to, subject, body) ==
    Append(sent_emails, [to |-> to, subject |-> subject, body |-> body])

notify(user_id, message, channel) ==
    Append(call_args, <<user_id, message, channel>>)

(***************************************************************************)
(* SqliteAppointmentRepository.  Each operation gives what it raised (if   *)
(* anything), the value it returned and the files it left behind.          *)
(***************************************************************************)
OperationalError == "OperationalError: no such table"
IntegrityError == "IntegrityError: FOREIGN KEY constraint failed"

Hydrate(row) == [row EXCEPT !.created_at = fromisoformat(@)]

Select(rows, id) == SelectSeq(rows, LAMBDA r : r.id = id)

\* variant: the INSERT leaves the status column to its DEFAULT 'pending'
repo_create_default_status(appointment) ==
    LET conn == connect(repo_path)
        id == autoincrement(conn.appointments, conn.seq_appointments)
        row == [id |-> id,
                client_name |-> appointment.client_name,
                email |-> appointment.email,
                service_type |-> appointment.service_type,
                date |-> appointment.date,
                created_at |-> isoformat(appointment.created_at),
                status |-> "pending"]
    IN IF "appointments" \notin conn.tables
       THEN [raised |-> OperationalError, value |-> None, files |-> files]
       ELSE [raised |-> "",
             value |-> id,
             files |-> commit_close(repo_path,
                          [conn EXCEPT !.appointments = Append(@, row),
                                       !.seq_appointments = id])]

\* variant: the storage error is caught and None is returned as the id
repo_create_swallowed(appointment) ==
    LET conn == connect(repo_path)
        id == autoincrement(conn.appointments, conn.seq_appointments)
        row == [id |-> id,
                client_name |-> appointment.client_name,
                email |-> appointment.email,
                service_type |-> appointment.service_type,
                date |-> appointment.date,
                created_at |-> isoformat(appointment.created_at),
                status |-> appointment.status]
    IN IF "appointments" \notin conn.tables
       THEN [raised |-> "", value |-> None, files |-> files]
       ELSE [raised |-> "",
             value |-> id,
             files |-> commit_close(repo_path,
                          [conn EXCEPT !.appointments = Append(@, row),
                                       !.seq_appointments = id])]

repo_create(appointment) ==
    LET conn == connect(repo_path)
        id == autoincrement(conn.appointments, conn.seq_appointments)
        row == [id |-> id,
                client_name |-> appointment.client_name,
                email |-> appointment.email,
                service_type |-> appointment.service_type,
                date |-> appointment.date,
                created_at |-> isoformat(appointment.created_at),
                status |-> appointment.status]
    IN IF "appointments" \notin conn.tables
       THEN [raised |-> OperationalError, value |-> None, files |-> files]
       ELSE IF foreign_keys /\ ~HasClient(conn, appointment.email)
       THEN [raised |-> IntegrityError, value |-> None, files |-> files]
       ELSE [raised |-> "",
             value |-> id,
             files |-> commit_close(repo_path,
                          [conn EXCEPT !.appointments = Append(@, row),
                                       !.seq_appointments = id])]

repo_find_by_id(id) ==
    LET conn == connect(repo_path)
        rows == Select(conn.appointments, id)
    IN IF "appointments" \notin conn.tables
       THEN [raised |-> OperationalError, value |-> None]
       ELSE [raised |-> "",
             value |-> IF rows # <<>> THEN Hydrate(rows[1]) ELSE None]

\* variant: rows come back newest first
repo_find_all_newest_first ==
    LET conn == connect(repo_path)
        rows == conn.appointments
    IN IF "appointments" \notin conn.tables
       THEN [raised |-> OperationalError, value |-> None]
       ELSE [raised |-> "",
             value |-> [i \in 1..Len(rows) |-> Hydrate(rows[Len(rows) + 1 - i])]]

repo_find_all ==
    LET conn == connect(repo_path)
        rows == conn.appointments
    IN IF "appointments" \notin conn.tables
       THEN [raised |-> OperationalError, value |-> None]
       ELSE [raised |-> "",
             value |-> [i \in 1..Len(rows) |-> Hydrate(rows[i])]]

\* variant: the appointment's invoices are deleted with it
repo_delete_cascade(id) ==
    LET conn == connect(repo_path)
        kept == SelectSeq(conn.appointments, LAMBDA r : r.id # id)
        rowcount == Len(conn.appointments) - Len(kept)
    IN IF "appointments" \notin conn.tables
       THEN [raised |-> OperationalError, value |-> None, files |-> files]
       ELSE [raised |-> "",
             value |-> rowcount > 0,
             files |-> commit_close(repo_path,
                          [conn EXCEPT
                             !.appointments = kept,
                             !.invoices = SelectSeq(@, LAMBDA r : r.appointment_id # id)])]

\* variant: DELETE FROM appointments without its WHERE clause
repo_delete_all(id) ==
    LET conn == connect(repo_path)
        rowcount == Len(conn.appointments)
    IN IF "appointments" \notin conn.tables
       THEN [raised |-> OperationalError, value |-> None, files |-> files]
       ELSE [raised |-> "",
             value |-> rowcount > 0,
             files |-> commit_close(repo_path, [conn EXCEPT !.appointments = <<>>])]

\* variant: deleted = cursor.rowcount >= 0
repo_delete_always_true(id) ==
    LET conn == connect(repo_path)
        kept == SelectSeq(conn.appointments, LAMBDA r : r.id # id)
        rowcount == Len(conn.appointments) - Len(kept)
    IN IF "appointments" \notin conn.tables
       THEN [raised |-> OperationalError, value |-> None, files |-> files]
       ELSE [raised |-> "",
             value |-> rowcount >= 0,
             files |-> commit_close(repo_path, [conn EXCEPT !.appointments = kept])]

repo_delete(id) ==
    LET conn == connect(repo_path)
        kept == SelectSeq(conn.appointments, LAMBDA r : r.id # id)
        rowcount == Len(conn.appointments) - Len(kept)
    IN IF "appointments" \notin conn.tables
       THEN [raised |-> OperationalError, value |-> None, files |-> files]
       ELSE [raised |-> "",
             value |-> rowcount > 0,
             files |-> commit_close(repo_path, [conn EXCEPT !.appointments = kept])]

(***************************************************************************)
(* SqliteInvoiceRepository: its constructor creates no table.              *)
(***************************************************************************)
\* variant: the status column is written as 'paid'
invoice_repo_create_paid(invoice) ==
    LET conn == connect(inv_path)
        id == autoincrement(conn.invoices, conn.seq_invoices)
        row == [id |-> id,
                appointment_id |-> invoice.appointment_id,
                amount |-> invoice.amount,
                status |-> "paid",
                created_at |-> isoformat(invoice.created_at)]
    IN IF "invoices" \notin conn.tables
       THEN [raised |-> OperationalError, value |-> None, files |-> files]
       ELSE [raised |-> "",
             value |-> id,
             files |-> commit_close(inv_path,
                          [conn EXCEPT !.invoices = Append(@, row),
                                       !.seq_invoices = id])]

\* variant: conn.close() without conn.commit(), the INSERT is rolled back
invoice_repo_create_uncommitted(invoice) ==
    LET conn == connect(inv_path)
        id == autoincrement(conn.invoices, conn.seq_invoices)
    IN IF "invoices" \notin conn.tables
       THEN [raised |-> OperationalError, value |-> None, files |-> files]
       ELSE [raised |-> "", value |-> id, files |-> files]

invoice_repo_create(invoice) ==
    LET conn == connect(inv_path)
        id == autoincrement(conn.invoices, conn.seq_invoices)
        row == [id |-> id,
                appointment_id |-> invoice.appointment_id,
                amount |-> invoice.amount,
                status |-> invoice.status,
                created_at |-> isoformat(invoice.created_at)]
    IN IF "invoices" \notin conn.tables
       THEN [raised |-> OperationalError, value |-> None, files |-> files]
       ELSE [raised |-> "",
             value |-> id,
             files |-> commit_close(inv_path,
                          [conn EXCEPT !.invoices = Append(@, row),
                                       !.seq_invoices = id])]

\* variant: the last matching row is fetched
find_by_appointment_latest(appointment_id) ==
    LET conn == connect(inv_path)
        rows == SelectSeq(conn.invoices, LAMBDA r : r.appointment_id = appointment_id)
    IN IF "invoices" \notin conn.tables
       THEN [raised |-> OperationalError, value |-> None]
       ELSE [raised |-> "",
             value |-> IF rows # <<>> THEN Hydrate(rows[Len(rows)]) ELSE None]

find_by_appointment(appointment_id) ==
    LET conn == connect(inv_path)
        rows == SelectSeq(conn.invoices, LAMBDA r : r.appointment_id = appointment_id)
    IN IF "invoices" \notin conn.tables
       THEN [raised |-> OperationalError, value |-> None]
       ELSE [raised |-> "",
             value |-> IF rows # <<>> THEN Hydrate(rows[1]) ELSE None]

(***************************************************************************)
(* AutoServiceManager                                                      *)
(***************************************************************************)
\* variant: the service type is compared without regard to case
_validate_service_type_caseless(service_type) ==
    \/ \E i \in 1..Len(ServiceType) : ServiceType[i] = service_type
    \/ service_type = "Oil_Change"

\* variant: no check of the service type
_validate_service_type_any(service_type) == TRUE

\* service_type in [s.value for s in ServiceType]
_validate_service_type(service_type) ==
    \E i \in 1..Len(ServiceType) : ServiceType[i] = service_type

\* variant: only the '@' is looked for
_validate_email_at_only(email) == Contains(email, "@")

\* '@' in email and '.' in email.split('@')[1]
_validate_email(email) ==
    Contains(email, "@") /\ Contains(Split(email, "@")[2], ".")

_create_email_body(appointment) ==
    <<appointment.client_name, appointment.service_type, appointment.date,
      appointment.status>>

ValueErrorService == "ValueError: Servicio invalido"
ValueErrorEmail == "ValueError: Email invalido"

\* the connections a call opened, the statements it executed on them and the
\* connections it closed: none, for a call that does not reach a store
NoConnection == [opened |-> 0, statements |-> 0, closed |-> 0]

\* a store method: conn = sqlite3.connect(...), one cursor.execute(...), then
\* (fetch, commit) conn.close() and return; an exception out of execute leaves
\* the method before conn.close() is reached
ConnectionUse(raised) ==
    [opened |-> 1, statements |-> 1, closed |-> IF raised = "" THEN 1 ELSE 0]

\* a call: its arguments, what it raised or returned, and the database files,
\* the e-mail double's call count, the notification spy's log and the clock's
\* held time as they were when it started
Call(op, args, raised, value) ==
    [op |-> op, args |-> args, raised |-> raised, value |-> value,
     before |-> files, count_before |-> call_count, notified_before |-> call_args,
     time_before |-> _time, message |-> <<>>, connections |-> NoConnection]

\* f"Servicio inválido: {service_type}. Válidos: {[s.value for s in ServiceType]}"
ServiceMessage(service_type) ==
    <<"Servicio invalido: ", service_type, ". Validos: ", ServiceType>>

\* f"Email inválido: {email}"
EmailMessage(email) == <<"Email invalido: ", email>>

\* a ValueError with its message, raised before anything was changed
RaiseValueError(op, args, error, message) ==
    /\ last' = [Call(op, args, error, None) EXCEPT !.message = message]
    /\ UNCHANGED <<wiring, users, callers, files, _time, sent_emails,
                   call_count, call_args, notif_count, returned_ids, created,
                   deleted_ids, advanced, n_advance>>

\* a call in which the store raised, and which changed nothing
Raise(op, args, error) ==
    /\ last' = [Call(op, args, error, None) EXCEPT
                  !.connections = ConnectionUse(error)]
    /\ UNCHANGED <<wiring, users, callers, files, _time, sent_emails,
                   call_count, call_args, notif_count, returned_ids, created,
                   deleted_ids, advanced, n_advance>>

CreateAppointment(client_name, email, service_type, date_str) ==
    LET args == <<client_name, email, service_type, date_str>>
        created_at == now
        appointment == [id |-> None,
                        client_name |-> client_name,
                        email |-> email,
                        service_type |-> service_type,
                        date |-> date_str,
                        created_at |-> created_at,
                        status |-> "confirmed"]
        r == repo_create(appointment)
        saved == [appointment EXCEPT !.id = r.value]
        s == real_send
    IN /\ (_validate_service_type(service_type) /\ _validate_email(email))
          => RowsInserted(repo_path) < MaxRows
       /\ IF ~_validate_service_type(service_type)
          THEN RaiseValueError("create_appointment", args, ValueErrorService,
                               ServiceMessage(service_type))
          ELSE IF ~_validate_email(email)
          THEN RaiseValueError("create_appointment", args, ValueErrorEmail,
                               EmailMessage(email))
          ELSE IF r.raised # ""
          THEN Raise("create_appointment", args, r.raised)
          ELSE /\ files' = r.files
               /\ sent_emails' = send(email, <<"Cita Confirmada - AutoService">>,
                                      _create_email_body(saved))
               /\ call_count' = call_count + 1
               /\ returned_ids' = Append(returned_ids, r.value)
               /\ IF s.raised # ""
                  THEN /\ last' = [Call("create_appointment", args,
                                         s.raised, None) EXCEPT
                                    !.connections = ConnectionUse(r.raised)]
                       /\ UNCHANGED <<call_args, notif_count, created>>
                  ELSE /\ IF notif_on
                          THEN /\ call_args' = notify(email,
                                                  <<"Cita confirmada para", date_str>>,
                                                  "email")
                               /\ notif_count' = notif_count + 1
                          ELSE UNCHANGED <<call_args, notif_count>>
                       /\ last' = [Call("create_appointment", args, "",
                                        [id |-> r.value,
                                         status |-> "confirmed",
                                         email_sent |-> s.value,
                                         created_at |-> created_at,
                                         appointment |-> saved]) EXCEPT
                                    !.connections = ConnectionUse(r.raised)]
                       /\ created' = Append(created,
                                        [id |-> r.value, args |-> args,
                                         created_at |-> created_at,
                                         advanced |-> advanced,
                                         deleted |-> deleted_ids])
               /\ UNCHANGED <<wiring, users, callers, _time, deleted_ids,
                              advanced, n_advance>>

FindById(id) ==
    LET r == repo_find_by_id(id)
    IN /\ last' = [Call("find_by_id", <<id>>, r.raised, r.value) EXCEPT
                     !.connections = ConnectionUse(r.raised)]
       /\ UNCHANGED <<wiring, users, callers, files, _time, sent_emails,
                      call_count, call_args, notif_count, returned_ids, created,
                      deleted_ids, advanced, n_advance>>

FindAll ==
    LET r == repo_find_all
    IN /\ last' = [Call("find_all", <<>>, r.raised, r.value) EXCEPT
                     !.connections = ConnectionUse(r.raised)]
       /\ UNCHANGED <<wiring, users, callers, files, _time, sent_emails,
                      call_count, call_args, notif_count, returned_ids, created,
                      deleted_ids, advanced, n_advance>>

Delete(id) ==
    LET r == repo_delete(id)
    IN /\ last' = [Call("delete", <<id>>, r.raised, r.value) EXCEPT
                     !.connections = ConnectionUse(r.raised)]
       /\ files' = r.files
       /\ deleted_ids' = IF r.raised = "" /\ r.value = TRUE
                         THEN deleted_ids \cup {id} ELSE deleted_ids
       /\ UNCHANGED <<wiring, users, callers, _time, sent_emails,
                      call_count, call_args, notif_count, returned_ids, created,
                      advanced, n_advance>>

Advance(hours, days) ==
    /\ n_advance < MaxAdvances
    /\ _time' = advance(hours, days)
    /\ advanced' = advanced + hours + 24 * days
    /\ n_advance' = n_advance + 1
    /\ last' = Call("advance", <<hours, days>>, "", None)
    /\ UNCHANGED <<wiring, users, callers, files, sent_emails,
                   call_count, call_args, notif_count, returned_ids, created,
                   deleted_ids>>

(***************************************************************************)
(* BillingManager                                                          *)
(***************************************************************************)
\* prices.get(service_type, 100.0)
_calculate_amount(service_type) ==
    CASE service_type = "oil_change" -> 50
      [] service_type = "brake_check" -> 75
      [] service_type = "tire_rotation" -> 40
      [] service_type = "full_service" -> 150
      [] OTHER -> 100

CreateInvoice(appointment_id, client_email, service_type) ==
    LET args == <<appointment_id, client_email, service_type>>
        amount == _calculate_amount(service_type)
        invoice == [id |-> None,
                    appointment_id |-> appointment_id,
                    amount |-> amount,
                    status |-> "unpaid",
                    created_at |-> now]
        r == invoice_repo_create(invoice)
        s == real_send
    IN /\ RowsInserted(inv_path) < MaxRows
       /\ IF r.raised # ""
          THEN Raise("create_invoice", args, r.raised)
          ELSE /\ files' = r.files
               /\ sent_emails' = send(client_email, <<"Factura #", r.value>>,
                                      <<"Monto a pagar", amount>>)
               /\ call_count' = call_count + 1
               /\ last' = [(IF s.raised # ""
                            THEN Call("create_invoice", args, s.raised, None)
                            ELSE Call("create_invoice", args, "",
                                      [invoice_id |-> r.value,
                                       amount |-> amount,
                                       email_sent |-> s.value])) EXCEPT
                            !.connections = ConnectionUse(r.raised)]
               /\ UNCHANGED <<wiring, users, callers, _time, call_args,
                              notif_count, returned_ids, created, deleted_ids,
                              advanced, n_advance>>

FindByAppointment(appointment_id) ==
    LET r == find_by_appointment(appointment_id)
    IN /\ last' = [Call("find_by_appointment", <<appointment_id>>,
                          r.raised, r.value) EXCEPT
                     !.connections = ConnectionUse(r.raised)]
       /\ UNCHANGED <<wiring, users, callers, files, _time, sent_emails,
                      call_count, call_args, notif_count, returned_ids, created,
                      deleted_ids, advanced, n_advance>>

(***************************************************************************)
(* create_appointment statement by statement, for callers that run it      *)
(* concurrently on the same manager.  A caller's frame holds its locals:    *)
(* the arguments, the Appointment, the connection repo.create has open     *)
(* (the database as that connection sees it, its own INSERT included),     *)
(* what the call raised and what it returned.                              *)
(***************************************************************************)
Callers == 1..MaxCallers

\* a caller that is not inside create_appointment
NoFrame == [args |-> <<>>, appointment |-> None, conn |-> None,
            lastrowid |-> None, email_sent |-> None, raised |-> "",
            result |-> None]

\* variant: the INSERT does not wait for the other connection's transaction
WriteLockFree_unlocked(c) == TRUE

\* cursor.execute(INSERT) takes the database file's write lock, and waits
\* while another connection holds it for an INSERT it has not committed; each
\* ":memory:" connection has a database, and so a lock, of its own
WriteLockFree(c) ==
    repo_path = MEMORY \/ \A d \in Callers \ {c} : pc[d] # "inserted"

\* the caller's call ends in an exception
Raised(c, error) ==
    /\ pc' = [pc EXCEPT ![c] = "raised"]
    /\ frame' = [frame EXCEPT ![c].raised = error, ![c].conn = None]

\* the validations and Appointment(...)
Enter(c, client_name, email, service_type, date_str) ==
    LET args == <<client_name, email, service_type, date_str>>
        appointment == [id |-> None,
                        client_name |-> client_name,
                        email |-> email,
                        service_type |-> service_type,
                        date |-> date_str,
                        created_at |-> now,
                        status |-> "confirmed"]
    IN /\ pc[c] = "idle"
       /\ IF ~_validate_service_type(service_type)
          THEN /\ pc' = [pc EXCEPT ![c] = "raised"]
               /\ frame' = [frame EXCEPT ![c].args = args,
                                         ![c].raised = ValueErrorService]
          ELSE IF ~_validate_email(email)
          THEN /\ pc' = [pc EXCEPT ![c] = "raised"]
               /\ frame' = [frame EXCEPT ![c].args = args,
                                         ![c].raised = ValueErrorEmail]
          ELSE /\ pc' = [pc EXCEPT ![c] = "create"]
               /\ frame' = [frame EXCEPT ![c].args = args,
                                         ![c].appointment = appointment]
       /\ UNCHANGED <<wiring, users, files, _time, sent_emails, call_count, call_args,
                      notif_count, last, returned_ids, created, deleted_ids,
                      advanced, n_advance>>

\* repo.create: sqlite3.connect and cursor.execute(INSERT)
Insert(c) ==
    LET conn == connect(repo_path)
        appointment == frame[c].appointment
        id == autoincrement(conn.appointments, conn.seq_appointments)
        row == [id |-> id,
                client_name |-> appointment.client_name,
                email |-> appointment.email,
                service_type |-> appointment.service_type,
                date |-> appointment.date,
                created_at |-> isoformat(appointment.created_at),
                status |-> appointment.status]
    IN /\ pc[c] = "create"
       /\ WriteLockFree(c)
       /\ IF "appointments" \notin conn.tables
          THEN Raised(c, OperationalError)
          ELSE IF foreign_keys /\ ~HasClient(conn, appointment.email)
          THEN Raised(c, IntegrityError)
          ELSE /\ pc' = [pc EXCEPT ![c] = "inserted"]
               /\ frame' = [frame EXCEPT
                               ![c].conn = [conn EXCEPT !.appointments = Append(@, row),
                                                        !.seq_appointments = id],
                               ![c].lastrowid = id]
       /\ UNCHANGED <<wiring, users, files, _time, sent_emails, call_count, call_args,
                      notif_count, last, returned_ids, created, deleted_ids,
                      advanced, n_advance>>

\* repo.create: cursor.lastrowid, conn.commit(), conn.close(), and
\* appointment.id = appointment_id in the manager
Commit(c) ==
    /\ pc[c] = "inserted"
    /\ files' = commit_close(repo_path, frame[c].conn)
    /\ pc' = [pc EXCEPT ![c] = "send"]
    /\ frame' = [frame EXCEPT ![c].conn = None,
                              ![c].appointment.id = frame[c].lastrowid]
    /\ UNCHANGED <<wiring, users, _time, sent_emails, call_count, call_args,
                   notif_count, last, returned_ids, created, deleted_ids,
                   advanced, n_advance>>

\* email_sent = self.email.send(...)
Send(c) ==
    LET s == real_send
        appointment == frame[c].appointment
    IN /\ pc[c] = "send"
       /\ sent_emails' = send(appointment.email, <<"Cita Confirmada - AutoService">>,
                              _create_email_body(appointment))
       /\ call_count' = call_count + 1
       /\ IF s.raised # ""
          THEN Raised(c, s.raised)
          ELSE /\ pc' = [pc EXCEPT ![c] = "notify"]
               /\ frame' = [frame EXCEPT ![c].email_sent = s.value]
       /\ UNCHANGED <<wiring, users, files, _time, call_args, notif_count, last,
                      returned_ids, created, deleted_ids, advanced, n_advance>>

\* variant: the notification service is never called
Notify_skipped(c) ==
    LET appointment == frame[c].appointment
    IN /\ pc[c] = "notify"
       /\ UNCHANGED <<call_args, notif_count>>
       /\ pc' = [pc EXCEPT ![c] = "done"]
       /\ frame' = [frame EXCEPT ![c].result =
                        [id |-> appointment.id,
                         status |-> "confirmed",
                         email_sent |-> frame[c].email_sent,
                         created_at |-> appointment.created_at,
                         appointment |-> appointment]]
       /\ UNCHANGED <<wiring, users, files, _time, sent_emails, call_count, last,
                      returned_ids, created, deleted_ids, advanced, n_advance>>

\* if self.notifications: self.notifications.notify(...), and the return
Notify(c) ==
    LET appointment == frame[c].appointment
    IN /\ pc[c] = "notify"
       /\ IF notif_on
          THEN /\ call_args' = notify(appointment.email,
                                      <<"Cita confirmada para", frame[c].args[4]>>,
                                      "email")
               /\ notif_count' = notif_count + 1
          ELSE UNCHANGED <<call_args, notif_count>>
       /\ pc' = [pc EXCEPT ![c] = "done"]
       /\ frame' = [frame EXCEPT ![c].result =
                        [id |-> appointment.id,
                         status |-> "confirmed",
                         email_sent |-> frame[c].email_sent,
                         created_at |-> appointment.created_at,
                         appointment |-> appointment]]
       /\ UNCHANGED <<wiring, users, files, _time, sent_emails, call_count, last,
                      returned_ids, created, deleted_ids, advanced, n_advance>>

(***************************************************************************)
(* mock_data.py and models.py: the simulated connection and the UserModel  *)
(* methods that main's menu loop calls on it.                              *)
(***************************************************************************)
CedulaInputs == {"1234567890", "5566778899"}
NombreInputs == {"Ana Torres", "Luis Mora"}

\* MockConnection.__init__
MockConnection ==
    [data |-> <<[id |-> 1, cedula |-> "1234567890", nombre |-> "Juan Perez"],
                [id |-> 2, cedula |-> "0987654321", nombre |-> "Maria Garcia"],
                [id |-> 3, cedula |-> "1122334455",
                 nombre |-> "Carlos Rodriguez"]>>,
     next_id |-> 4]

\* MockCursor.__init__; the list is the connection's own list, the number is a
\* copy of the connection's number
MockCursor(d, n, dictionary) ==
    [data |-> d, next_id |-> n, dictionary |-> dictionary,
     lastrowid |-> None, rowcount |-> 0, result |-> None]

\* MockConnection.cursor
cursor(dictionary) == MockCursor(data, next_id, dictionary)

\* the position of the first user with this cedula, 0 if there is none: where
\* next(...) and the for loops of execute stop
FirstWith(d, cedula) ==
    IF \E i \in 1..Len(d) : d[i].cedula = cedula
    THEN CHOOSE i \in 1..Len(d) :
             /\ d[i].cedula = cedula
             /\ \A j \in 1..(i - 1) : d[j].cedula # cedula
    ELSE 0

\* list.pop(i)
Pop(d, i) == [j \in 1..(Len(d) - 1) |-> IF j < i THEN d[j] ELSE d[j + 1]]

\* MockCursor.execute: the cursor after the query; cur.data is the list it
\* shares with the connection, and "insert" in query_lower is the presence of
\* that word among the query's words
execute(cur, query, params) ==
    IF Contains(query, "insert")
    THEN [cur EXCEPT !.data = Append(cur.data, [id |-> cur.next_id,
                                                cedula |-> params[1],
                                                nombre |-> params[2]]),
                     !.lastrowid = cur.next_id,
                     !.next_id = cur.next_id + 1,
                     !.rowcount = 1]
    ELSE IF Contains(query, "select")
    THEN IF params # <<>>
         THEN [cur EXCEPT !.result =
                   IF FirstWith(cur.data, params[1]) = 0
                   THEN None
                   ELSE cur.data[FirstWith(cur.data, params[1])]]
         ELSE [cur EXCEPT !.result = cur.data]
    ELSE IF Contains(query, "update")
    THEN IF FirstWith(cur.data, params[2]) = 0
         THEN [cur EXCEPT !.rowcount = 0]
         ELSE [cur EXCEPT !.data[FirstWith(cur.data, params[2])].nombre =
                              params[1],
                          !.rowcount = 1]
    ELSE IF Contains(query, "delete")
    THEN IF FirstWith(cur.data, params[1]) = 0
         THEN [cur EXCEPT !.rowcount = 0]
         ELSE [cur EXCEPT !.data = Pop(cur.data,
                                       FirstWith(cur.data, params[1])),
                          !.rowcount = 1]
    ELSE cur

\* MockCursor.fetchall: self.result if self.result else []
fetchall(cur) ==
    IF cur.result = None \/ cur.result = <<>> THEN <<>> ELSE cur.result

\* MockCursor.fetchone
fetchone(cur) == cur.result

\* the queries of UserModel, lower-cased, as their words
INSERT == <<"insert", "into", "users", "(cedula,", "nombre)", "values">>
SELECT_ALL == <<"select", "*", "from", "users">>
SELECT_WHERE == <<"select", "*", "from", "users", "where", "cedula", "=">>
UPDATE == <<"update", "users", "set", "nombre", "=", "where", "cedula", "=">>
DELETE == <<"delete", "from", "users", "where", "cedula", "=">>

\* a UserModel call: its arguments, what it returned, and the connection's
\* users when it was made
UserCall(op, args, value) ==
    [op |-> op, args |-> args, value |-> value, before |-> data]

\* UserModel.crear; commit does nothing, and the connection's next_id is not
\* the cursor's
crear(cedula, nombre) ==
    LET cur == execute(cursor(FALSE), INSERT, <<cedula, nombre>>)
    IN /\ Len(data) < MaxUsers
       /\ data' = cur.data
       /\ user_call' = UserCall("crear", <<cedula, nombre>>, cur.lastrowid)
       /\ UNCHANGED <<autoservice, next_id>>

\* UserModel.listar_todos
listar_todos ==
    LET cur == execute(cursor(TRUE), SELECT_ALL, <<>>)
    IN /\ user_call' = UserCall("listar_todos", <<>>, fetchall(cur))
       /\ UNCHANGED <<autoservice, data, next_id>>

\* UserModel.buscar_por_cedula
buscar_por_cedula(cedula) ==
    LET cur == execute(cursor(TRUE), SELECT_WHERE, <<cedula>>)
    IN /\ user_call' = UserCall("buscar_por_cedula", <<cedula>>, fetchone(cur))
       /\ UNCHANGED <<autoservice, data, next_id>>

\* UserModel.actualizar
actualizar(cedula, nuevo_nombre) ==
    LET cur == execute(cursor(FALSE), UPDATE, <<nuevo_nombre, cedula>>)
    IN /\ data' = cur.data
       /\ user_call' = UserCall("actualizar", <<cedula, nuevo_nombre>>,
                                cur.rowcount > 0)
       /\ UNCHANGED <<autoservice, next_id>>

\* UserModel.eliminar
eliminar(cedula) ==
    LET cur == execute(cursor(FALSE), DELETE, <<cedula>>)
    IN /\ data' = cur.data
       /\ user_call' = UserCall("eliminar", <<cedula>>, cur.rowcount > 0)
       /\ UNCHANGED <<autoservice, next_id>>

(***************************************************************************)
(* The program after construction: an appointment repository on its path   *)
(* (its constructor runs _init_schema), an invoice repository on its own   *)
(* path, a fixed clock, the recording doubles, and optionally the spy      *)
(* notification service.                                                   *)
(***************************************************************************)
Constructed ==
    /\ files = _init_schema(repo_path, [p \in FilePaths |-> EmptyDb])
    /\ pc = [c \in Callers |-> "idle"]
    /\ frame = [c \in Callers |-> NoFrame]
    /\ _time = 0
    /\ sent_emails = <<>>
    /\ call_count = 0
    /\ call_args = <<>>
    /\ notif_count = 0
    /\ last = Call("init", <<>>, "", None)
    /\ returned_ids = <<>>
    /\ created = <<>>
    /\ deleted_ids = {}
    /\ advanced = 0
    /\ n_advance = 0
    /\ data = MockConnection.data
    /\ next_id = MockConnection.next_id
    /\ user_call = UserCall("init", <<>>, None)

\* the managers of the tests: MockEmailService, one caller at a time
Init ==
    /\ repo_path \in {MEMORY, SHOP_DB}
    /\ inv_path \in {MEMORY, SHOP_DB, BILLING_DB}
    /\ notif_on \in BOOLEAN
    /\ real_service = DELIVERS
    /\ Constructed

\* the managers on one database file, with a SpyEmailService around a
\* real_service that delivers, does not deliver, or raises
InitSpy ==
    /\ repo_path = SHOP_DB
    /\ inv_path = SHOP_DB
    /\ notif_on \in BOOLEAN
    /\ real_service \in {DELIVERS, FAILS, RAISES}
    /\ Constructed

Next ==
    \/ \E a \in AppointmentInputs : CreateAppointment(a[1], a[2], a[3], a[4])
    \/ \E id \in IdInputs : FindById(id)
    \/ FindAll
    \/ \E id \in IdInputs : Delete(id)
    \/ \E a \in AdvanceInputs : Advance(a[1], a[2])
    \/ \E a \in InvoiceInputs : CreateInvoice(a[1], a[2], a[3])
    \/ \E id \in IdInputs : FindByAppointment(id)

Spec == Init /\ [][Next]_vars

SpecSpy == InitSpy /\ [][Next]_vars

\* one manager whose create_appointment is called once by each of several
\* concurrent callers
InitCallers ==
    /\ repo_path \in {MEMORY, SHOP_DB}
    /\ inv_path = repo_path
    /\ notif_on \in BOOLEAN
    /\ real_service \in {DELIVERS, FAILS, RAISES}
    /\ Constructed

NextCallers ==
    \E c \in Callers :
        \/ \E a \in AppointmentInputs : Enter(c, a[1], a[2], a[3], a[4])
        \/ Insert(c)
        \/ Commit(c)
        \/ Send(c)
        \/ Notify(c)

SpecCallers == InitCallers /\ [][NextCallers]_vars

\* main with connection = get_mock_connection(): the menu loop's calls on the
\* UserModel
InitMock ==
    /\ repo_path = SHOP_DB
    /\ inv_path = SHOP_DB
    /\ notif_on = FALSE
    /\ real_service = DELIVERS
    /\ Constructed

NextMock ==
    \/ \E cedula \in CedulaInputs, nombre \in NombreInputs :
           crear(cedula, nombre)
    \/ listar_todos
    \/ \E cedula \in CedulaInputs : buscar_por_cedula(cedula)
    \/ \E cedula \in CedulaInputs, nombre \in NombreInputs :
           actualizar(cedula, nombre)
    \/ \E cedula \in CedulaInputs : eliminar(cedula)

SpecMock == InitMock /\ [][NextMock]_vars

(***************************************************************************)
(* Vocabulary of the properties, stated without the code's validators.     *)
(***************************************************************************)
\* the fixed enumerated set of service-type codes
InFixedSet(service_type) ==
    service_type \in {"oil_change", "brake_check", "tire_rotation", "full_service"}

LacksAt(e) == \A i \in 1..Len(e) : e[i] # "@"

FirstAt(e) == CHOOSE i \in 1..Len(e) : e[i] = "@" /\ \A j \in 1..(i - 1) : e[j] # "@"

LacksDotAfterFirstAt(e) ==
    ~LacksAt(e) /\ \A j \in (FirstAt(e) + 1)..Len(e) : e[j] # "."

\* every string of at most MaxContactLen characters over a letter, '@' and '.'
Contacts == UNION {[1..n -> {"a", "@", "."}] : n \in 0..MaxContactLen}

\* local@domain: one '@', a non-empty local part, a dot in the domain
WellFormed(e) ==
    /\ Cardinality({i \in 1..Len(e) : e[i] = "@"}) = 1
    /\ FirstAt(e) > 1
    /\ \E j \in (FirstAt(e) + 1)..Len(e) : e[j] = "."

\* the rows of the appointment store, as its own connections see them
StoredAppointments == connect(repo_path).appointments

StoreCount == Len(StoredAppointments)

StoredIds == {StoredAppointments[i].id : i \in 1..Len(StoredAppointments)}

\* the same, when the last call started
AppointmentsBefore ==
    IF repo_path = MEMORY THEN <<>> ELSE last.before[repo_path].appointments

CountBefore == Len(AppointmentsBefore)

IdsBefore == {AppointmentsBefore[i].id : i \in 1..Len(AppointmentsBefore)}

\* ids returned by the store's create before the latest one
EarlierIds == {returned_ids[i] : i \in 1..(Len(returned_ids) - 1)}

(***************************************************************************)
(* C1: for every valid input (service type in the fixed set, well-formed   *)
(* contact) create_appointment returns a strictly positive identifier that *)
(* no earlier create on the store returned, and a following find_by_id     *)
(* with it returns a record whose status is 'confirmed'.                   *)
(***************************************************************************)
C1_ValidCreateReturnsFreshConfirmedId ==
    (/\ last.op = "create_appointment"
     /\ InFixedSet(last.args[3])
     /\ WellFormed(last.args[2]))
    => /\ last.raised = ""
       /\ last.value.id > 0
       /\ last.value.id \notin EarlierIds
       /\ repo_find_by_id(last.value.id).raised = ""
       /\ repo_find_by_id(last.value.id).value # None
       /\ repo_find_by_id(last.value.id).value.status = "confirmed"

(***************************************************************************)
(* C2: a create_appointment call whose service type is outside the fixed   *)
(* set fails with the service validation error, and the number of records  *)
(* in the appointment store (indeed every database file) is as before.     *)
(***************************************************************************)
C2_InvalidServiceRejectedBeforeMutation ==
    (last.op = "create_appointment" /\ ~InFixedSet(last.args[3]))
    => /\ last.raised = ValueErrorService
       /\ StoreCount = CountBefore
       /\ files = last.before

C2_Witness ==
    /\ last.op = "create_appointment"
    /\ ~InFixedSet(last.args[3])
    /\ last.raised = ValueErrorService
    /\ StoreCount > 0

(***************************************************************************)
(* C3: a create_appointment call with a valid service type and a contact   *)
(* that lacks '@', or lacks a '.' after the first '@', fails with the      *)
(* contact validation error and persists nothing; and the validator turns  *)
(* down every such string of at most MaxContactLen characters.             *)
(***************************************************************************)
ValidatorRejectsMalformed ==
    \A e \in Contacts :
        (LacksAt(e) \/ LacksDotAfterFirstAt(e)) => ~_validate_email(e)

C3_MalformedContactRejected ==
    /\ ValidatorRejectsMalformed
    /\ (/\ last.op = "create_appointment"
        /\ InFixedSet(last.args[3])
        /\ (LacksAt(last.args[2]) \/ LacksDotAfterFirstAt(last.args[2])))
       => /\ last.raised = ValueErrorEmail
          /\ StoreCount = CountBefore
          /\ files = last.before

C3_Witness ==
    /\ last.op = "create_appointment"
    /\ InFixedSet(last.args[3])
    /\ LacksDotAfterFirstAt(last.args[2])
    /\ last.raised = ValueErrorEmail
    /\ StoreCount > 0

(***************************************************************************)
(* C4: deleting an id that is in the store returns True and find_by_id on  *)
(* it then returns None; deleting an id that an earlier delete removed     *)
(* returns False without raising and leaves the store as it was.           *)
(***************************************************************************)
C4_DeleteThenDeleteAgain ==
    last.op = "delete"
    => LET id == last.args[1]
       IN /\ id \in IdsBefore
             => /\ last.raised = ""
                /\ last.value = TRUE
                /\ repo_find_by_id(id).raised = ""
                /\ repo_find_by_id(id).value = None
          /\ (id \in deleted_ids /\ id \notin IdsBefore)
             => /\ last.raised = ""
                /\ last.value = FALSE
                /\ files = last.before

C4_Witness ==
    /\ last.op = "delete"
    /\ last.raised = ""
    /\ last.value = FALSE
    /\ last.args[1] \in deleted_ids
    /\ StoreCount > 0

(***************************************************************************)
(* C5: create_invoice returns, and persists, an amount fixed by the        *)
(* service type alone: 50 for oil_change, 75 for brake_check, 40 for       *)
(* tire_rotation, 150 for full_service, and 100 for any other string       *)
(* instead of failing.                                                     *)
(***************************************************************************)
PriceList(service_type) ==
    IF service_type = "oil_change" THEN 50
    ELSE IF service_type = "brake_check" THEN 75
    ELSE IF service_type = "tire_rotation" THEN 40
    ELSE IF service_type = "full_service" THEN 150
    ELSE 100

StoredInvoices == connect(inv_path).invoices

C5_InvoiceAmountFixedByServiceType ==
    last.op = "create_invoice"
    => /\ last.raised = ""
       /\ last.value.amount = PriceList(last.args[3])
       /\ \E i \in 1..Len(StoredInvoices) :
             /\ StoredInvoices[i].id = last.value.invoice_id
             /\ StoredInvoices[i].amount = PriceList(last.args[3])

(***************************************************************************)
(* C6: with the fixed clock, the created_at of two created appointments    *)
(* differ by exactly the hours advanced between the two creations: by 0    *)
(* with no advance call between them, by h after advance(hours=h); the     *)
(* stored records read back the same created_at.                           *)
(***************************************************************************)
C6_CreatedAtFollowsAdvance ==
    /\ \A i, j \in 1..Len(created) :
          i < j => created[j].created_at - created[i].created_at
                   = created[j].advanced - created[i].advanced
    /\ \A i \in 1..Len(created) :
          created[i].id \in StoredIds
          => repo_find_by_id(created[i].id).value.created_at = created[i].created_at

C6_Witness ==
    /\ Len(created) = 2
    /\ created[2].advanced - created[1].advanced = 5
    /\ created[2].created_at - created[1].created_at = 5
    /\ {created[1].id, created[2].id} \subseteq StoredIds

(***************************************************************************)
(* C7: with the recording e-mail double, after any calls of which N        *)
(* create_appointment calls succeeded, the double logged one confirmation  *)
(* per success, the i-th to the i-th successful call's contact; its call   *)
(* count is the length of its log (N when only appointments were created), *)
(* and a create_appointment call that raised added nothing.                *)
(***************************************************************************)
Confirmations ==
    SelectSeq(sent_emails, LAMBDA e : e.subject = <<"Cita Confirmada - AutoService">>)

C7_RecordingNotifierMatchesCreations ==
    /\ call_count = Len(sent_emails)
    /\ Len(Confirmations) = Len(created)
    /\ \A i \in 1..Len(Confirmations) : Confirmations[i].to = created[i].args[2]
    /\ Len(Confirmations) = Len(sent_emails) => call_count = Len(created)
    /\ (last.op = "create_appointment" /\ last.raised # "")
       => call_count = last.count_before

C7_Witness ==
    /\ Len(created) = 2
    /\ created[1].args[2] # created[2].args[2]
    /\ call_count = 2
    /\ last.op = "create_appointment"
    /\ last.raised = ValueErrorEmail

(***************************************************************************)
(* C8: an appointment store on the in-memory path ':memory:' keeps its     *)
(* records: a record given to create is returned by later find_by_id and   *)
(* find_all calls on the same store.                                       *)
(***************************************************************************)
C8_MemoryStoreKeepsRecords ==
    (/\ repo_path = MEMORY
     /\ last.op = "create_appointment"
     /\ last.raised \notin {ValueErrorService, ValueErrorEmail})
    => /\ last.raised = ""
       /\ repo_find_by_id(last.value.id).raised = ""
       /\ repo_find_by_id(last.value.id).value # None
       /\ repo_find_all.raised = ""
       /\ \E i \in 1..Len(repo_find_all.value) :
             repo_find_all.value[i].id = last.value.id

(***************************************************************************)
(* C9: find_all returns the records now in the store (those created and    *)
(* not deleted), each once, in creation order, which is ascending id; with *)
(* no deletion the i-th has id i and the i-th creation's client name.      *)
(***************************************************************************)
CreatedAndKept == SelectSeq(created, LAMBDA c : c.id \notin deleted_ids)

C9_FindAllInCreationOrder ==
    (last.op = "find_all" /\ last.raised = "")
    => LET v == last.value
       IN /\ Len(v) = Len(CreatedAndKept)
          /\ Len(v) = StoreCount
          /\ \A i \in 1..Len(v) :
                /\ v[i].id = CreatedAndKept[i].id
                /\ v[i].client_name = CreatedAndKept[i].args[1]
          /\ \A i, j \in 1..Len(v) : i < j => v[i].id < v[j].id
          /\ deleted_ids = {} => \A i \in 1..Len(v) : v[i].id = i

C9_Witness ==
    /\ last.op = "find_all"
    /\ last.raised = ""
    /\ Len(last.value) = 2
    /\ last.value[1].client_name # last.value[2].client_name

(***************************************************************************)
(* C10: the ids the store's create returns are strictly increasing over    *)
(* any sequence of creates and deletes, and an id deleted before a create  *)
(* is never the id that create returns, also when it was the highest id.   *)
(***************************************************************************)
C10_IdsStrictlyIncreasing ==
    /\ \A i, j \in 1..Len(returned_ids) : i < j => returned_ids[i] < returned_ids[j]
    /\ \A j \in 1..Len(created) : created[j].id \notin created[j].deleted

\* a create that followed the deletion of the highest id handed out so far
C10_Witness ==
    \E j \in 2..Len(created) :
        /\ returned_ids[j - 1] \in created[j].deleted
        /\ created[j].id = returned_ids[j]

(***************************************************************************)
(* C11: an invoice store on a db_path of its own, on which no appointment  *)
(* store was constructed, accepts create_invoice, and find_by_appointment  *)
(* with the same appointment id then returns that invoice, with the        *)
(* computed amount and with created_at equal to the clock's time.          *)
(***************************************************************************)
C11_InvoiceStoreOnOwnPath ==
    (last.op = "create_invoice" /\ inv_path # repo_path)
    => /\ last.raised = ""
       /\ find_by_appointment(last.args[1]).raised = ""
       /\ find_by_appointment(last.args[1]).value # None
       /\ find_by_appointment(last.args[1]).value.amount = PriceList(last.args[3])
       /\ find_by_appointment(last.args[1]).value.created_at = now

(***************************************************************************)
(* C12: when the e-mail service's send is reached and returns False,       *)
(* create_appointment does not roll back: it returns a result with         *)
(* email_sent = False, and the appointment is in the store and find_by_id  *)
(* returns it under the returned id.                                       *)
(***************************************************************************)
SendCalled == call_count = last.count_before + 1

C12_UndeliveredConfirmationKeepsAppointment ==
    (last.op = "create_appointment" /\ real_service = FAILS /\ SendCalled)
    => /\ last.raised = ""
       /\ last.value.email_sent = FALSE
       /\ StoreCount = CountBefore + 1
       /\ repo_find_by_id(last.value.id).raised = ""
       /\ repo_find_by_id(last.value.id).value # None
       /\ repo_find_by_id(last.value.id).value.email = last.args[2]
       /\ repo_find_by_id(last.value.id).value.client_name = last.args[1]

C12_Witness ==
    /\ last.op = "create_appointment"
    /\ real_service = FAILS
    /\ last.raised = ""
    /\ last.value.email_sent = FALSE
    /\ last.value.id = 2
    /\ StoreCount = 2

(***************************************************************************)
(* C13: a notification failure in create_appointment or create_invoice is  *)
(* never raised to the caller: whenever the e-mail service's send is       *)
(* reached and does not deliver (it returns False, or it raises), the call *)
(* completes and its result carries email_sent = False.                    *)
(***************************************************************************)
C13_NotificationFailureNeverRaised ==
    (/\ last.op \in {"create_appointment", "create_invoice"}
     /\ real_service \in {FAILS, RAISES}
     /\ SendCalled)
    => /\ last.raised = ""
       /\ last.value.email_sent = FALSE

(***************************************************************************)
(* C14, as stated: when create_invoice persists and the billing e-mail is  *)
(* then not delivered, the caller gets a result with email_sent = False,   *)
(* and find_by_appointment with the call's appointment id returns the      *)
(* invoice just created.                                                   *)
(***************************************************************************)
InvoicesBefore ==
    IF inv_path = MEMORY THEN <<>> ELSE last.before[inv_path].invoices

EarlierInvoicesOf(appointment_id) ==
    SelectSeq(InvoicesBefore, LAMBDA r : r.appointment_id = appointment_id)

C15_PersistedAppointmentsWellFormed ==
    \A i \in 1..Len(StoredAppointments) :
        /\ InFixedSet(StoredAppointments[i].service_type)
        /\ WellFormed(StoredAppointments[i].email)

(***************************************************************************)
(* C17: in every reachable state, the email of every row of appointments   *)
(* is the email of a row of clients in the same database; a create for a   *)
(* contact with no clients row ends in the integrity error.                *)
(***************************************************************************)
C17_AppointmentEmailHasClient ==
    /\ \A i \in 1..Len(StoredAppointments) :
          HasClient(connect(repo_path), StoredAppointments[i].email)
    /\ (/\ last.op = "create_appointment"
        /\ last.raised \notin {ValueErrorService, ValueErrorEmail, OperationalError}
        /\ ~HasClient(connect(repo_path), last.args[2]))
       => last.raised = IntegrityError

(***************************************************************************)
(* C16: every invoice create_invoice creates is stored with status         *)
(* 'unpaid', and no operation changes it afterwards: in every reachable    *)
(* state every stored invoice is 'unpaid', every call leaves the invoices  *)
(* that were stored before it exactly as they were, and                    *)
(* find_by_appointment returns invoices with status 'unpaid'.              *)
(***************************************************************************)
C16_InvoicesStayUnpaid ==
    /\ \A i \in 1..Len(StoredInvoices) : StoredInvoices[i].status = "unpaid"
    /\ Len(InvoicesBefore) <= Len(StoredInvoices)
    /\ \A i \in 1..Len(InvoicesBefore) : StoredInvoices[i] = InvoicesBefore[i]
    /\ (last.op = "create_invoice" /\ last.raised = "")
       => \E i \in 1..Len(StoredInvoices) :
             /\ StoredInvoices[i].id = last.value.invoice_id
             /\ StoredInvoices[i].status = "unpaid"
    /\ (last.op = "find_by_appointment" /\ last.raised = "" /\ last.value # None)
       => last.value.status = "unpaid"

\* an invoice read back after its appointment was deleted
C16_Witness ==
    /\ last.op = "find_by_appointment"
    /\ last.raised = ""
    /\ last.value # None
    /\ last.value.status = "unpaid"
    /\ last.value.appointment_id \in deleted_ids

(***************************************************************************)
(* C19: when the store's create raises a storage error (its table is       *)
(* missing), create_appointment, and likewise create_invoice, ends in that *)
(* error: nothing was sent by e-mail, nothing was notified, and no         *)
(* database file changed, so no second attempt was made.                   *)
(***************************************************************************)
TablesBefore(path) ==
    IF path = MEMORY THEN EmptyDb.tables ELSE last.before[path].tables

NothingSent ==
    /\ call_count = last.count_before
    /\ Len(sent_emails) = last.count_before
    /\ call_args = last.notified_before
    /\ files = last.before

C19_StorageErrorPropagates ==
    /\ (/\ last.op = "create_appointment"
        /\ last.raised \notin {ValueErrorService, ValueErrorEmail}
        /\ "appointments" \notin TablesBefore(repo_path))
       => last.raised = OperationalError /\ NothingSent
    /\ (last.op = "create_invoice" /\ "invoices" \notin TablesBefore(inv_path))
       => last.raised = OperationalError /\ NothingSent
    /\ (/\ last.op \in {"create_appointment", "create_invoice"}
        /\ last.raised = OperationalError)
       => NothingSent

C19_Witness ==
    /\ last.op = "create_appointment"
    /\ last.raised = OperationalError
    /\ notif_on
    /\ call_count = 0
    /\ call_args = <<>>

(***************************************************************************)
(* C18: with an event notifier configured, every create_appointment call   *)
(* that returns has emitted exactly one notification, to the call's        *)
(* contact on channel 'email', at a point where its record was already in  *)
(* the store and its confirmation e-mail already sent; the returned result *)
(* holds the e-mail's boolean and nothing of notify's; calls that raise    *)
(* emit none, and with no notifier configured none is ever emitted.        *)
(***************************************************************************)
Done(c) == pc[c] = "done"

NotifiedTo(e) == Cardinality({i \in 1..Len(call_args) : call_args[i][1] = e})

DoneFor(e) == Cardinality({c \in Callers : Done(c) /\ frame[c].args[2] = e})

Persisted(c) ==
    \E i \in 1..Len(StoredAppointments) :
        /\ StoredAppointments[i].id = frame[c].appointment.id
        /\ StoredAppointments[i].client_name = frame[c].args[1]
        /\ StoredAppointments[i].email = frame[c].args[2]
        /\ StoredAppointments[i].service_type = frame[c].args[3]
        /\ StoredAppointments[i].date = frame[c].args[4]

Confirmed(c) ==
    \E i \in 1..Len(sent_emails) :
        /\ sent_emails[i].to = frame[c].args[2]
        /\ sent_emails[i].subject = <<"Cita Confirmada - AutoService">>

C18_EventNotifierOncePerCreate ==
    /\ notif_on
       => /\ Len(call_args) = Cardinality({c \in Callers : Done(c)})
          /\ \A c \in Callers :
                Done(c) => NotifiedTo(frame[c].args[2]) = DoneFor(frame[c].args[2])
          /\ \A i \in 1..Len(call_args) :
                \E c \in Callers :
                   /\ Done(c)
                   /\ call_args[i] = <<frame[c].args[2],
                                       <<"Cita confirmada para", frame[c].args[4]>>,
                                       "email">>
    /\ ~notif_on => call_args = <<>> /\ notif_count = 0
    /\ \A c \in Callers :
          pc[c] \in {"notify", "done"} => Persisted(c) /\ Confirmed(c)
    /\ \A c \in Callers :
          Done(c) => /\ DOMAIN frame[c].result =
                          {"id", "status", "email_sent", "created_at", "appointment"}
                     /\ frame[c].result.email_sent = (real_service = DELIVERS)

\* both calls returned; the e-mail was not delivered, the notifications were
C18_Witness ==
    /\ notif_on
    /\ real_service = FAILS
    /\ \A c \in Callers : Done(c) /\ frame[c].result.email_sent = FALSE
    /\ Len(call_args) = MaxCallers
    /\ \E c, d \in Callers : frame[c].args[2] # frame[d].args[2]

(***************************************************************************)
(* C20: when callers interleave create_appointment on the same file-backed *)
(* store, the ids repo.create gave them are pairwise different, each       *)
(* call's result carries its own id, and every one of their records is in  *)
(* the store, which holds exactly those records.                           *)
(***************************************************************************)
CreateReturned(c) ==
    \/ pc[c] \in {"send", "notify", "done"}
    \/ pc[c] = "raised" /\ frame[c].raised = SendError

C20_InterleavedCreatesKeepBoth ==
    repo_path # MEMORY
    => /\ \A c, d \in Callers :
             (c # d /\ CreateReturned(c) /\ CreateReturned(d))
             => frame[c].appointment.id # frame[d].appointment.id
       /\ \A c \in Callers : CreateReturned(c) => Persisted(c)
       /\ \A c \in Callers : Done(c) => frame[c].result.id = frame[c].appointment.id
       /\ StoreCount = Cardinality({c \in Callers : CreateReturned(c)})

\* caller 2 inserted first and has not yet sent its e-mail; caller 1's whole
\* call, from its INSERT to its return, ran in between
C20_Witness ==
    /\ repo_path # MEMORY
    /\ pc[1] = "done"
    /\ pc[2] = "send"
    /\ frame[2].appointment.id = 1
    /\ frame[1].result.id = 2
    /\ StoreCount = 2

(***************************************************************************)
(* C21: every appointment create_appointment creates is stored with status *)
(* 'confirmed', and no operation puts a stored appointment to 'pending':   *)
(* in every reachable state every stored appointment is 'confirmed', and   *)
(* so is every record create_appointment, find_by_id and find_all return.  *)
(***************************************************************************)
C21_AppointmentsStayConfirmed ==
    /\ \A i \in 1..Len(StoredAppointments) :
          StoredAppointments[i].status = "confirmed"
    /\ (last.op = "create_appointment" /\ last.raised = "")
       => /\ last.value.status = "confirmed"
          /\ last.value.appointment.status = "confirmed"
          /\ \E i \in 1..Len(StoredAppointments) :
                /\ StoredAppointments[i].id = last.value.id
                /\ StoredAppointments[i].status = "confirmed"
    /\ (last.op = "find_by_id" /\ last.raised = "" /\ last.value # None)
       => last.value.status = "confirmed"
    /\ (last.op = "find_all" /\ last.raised = "")
       => \A i \in 1..Len(last.value) : last.value[i].status = "confirmed"

\* a record read back after another record was deleted
C21_Witness ==
    /\ last.op = "find_by_id"
    /\ last.raised = ""
    /\ last.value # None
    /\ last.value.status = "confirmed"
    /\ deleted_ids # {}

(***************************************************************************)
(* C22: a stored appointment is never updated in place: while it is in the *)
(* store find_by_id returns the client name, contact, service type, date,  *)
(* created_at and status it was created with; every call other than       *)
(* delete leaves the rows stored before it as they were; delete(id)        *)
(* removes exactly the rows with that id, and a deleted record is gone     *)
(* entirely.                                                               *)
(***************************************************************************)
C22_AppointmentsNeverUpdatedInPlace ==
    /\ \A i \in 1..Len(created) :
          IF created[i].id \in StoredIds
          THEN LET v == repo_find_by_id(created[i].id).value
               IN /\ v.client_name = created[i].args[1]
                  /\ v.email = created[i].args[2]
                  /\ v.service_type = created[i].args[3]
                  /\ v.date = created[i].args[4]
                  /\ v.created_at = created[i].created_at
                  /\ v.status = "confirmed"
          ELSE /\ created[i].id \in deleted_ids
               /\ repo_find_by_id(created[i].id).value = None
    /\ (last.op = "delete" /\ last.raised = "")
       => StoredAppointments =
             SelectSeq(AppointmentsBefore, LAMBDA r : r.id # last.args[1])
    /\ last.op = "create_appointment"
       => /\ Len(AppointmentsBefore) <= StoreCount
          /\ \A i \in 1..Len(AppointmentsBefore) :
                StoredAppointments[i] = AppointmentsBefore[i]
    /\ last.op \notin {"delete", "create_appointment"}
       => StoredAppointments = AppointmentsBefore

\* a delete that removed one of two records
C22_Witness ==
    /\ last.op = "delete"
    /\ last.raised = ""
    /\ last.value = TRUE
    /\ CountBefore = 2
    /\ StoreCount = 1

(***************************************************************************)
(* C23: each completed create_invoice call adds exactly one invoice, for   *)
(* the appointment id it was given whether or not such an appointment is   *)
(* stored, and no other call adds, changes or removes an invoice: the      *)
(* number of invoices is the number of completed create_invoice calls      *)
(* (each of which sent one billing e-mail), also after the appointment is  *)
(* deleted.                                                                *)
(***************************************************************************)
BillingEmails == SelectSeq(sent_emails, LAMBDA e : e.subject[1] = "Factura #")

C23_OneInvoicePerCompletedCall ==
    /\ Len(StoredInvoices) = Len(BillingEmails)
    /\ (last.op = "create_invoice" /\ last.raised = "")
       => /\ Len(StoredInvoices) = Len(InvoicesBefore) + 1
          /\ \A i \in 1..Len(InvoicesBefore) : StoredInvoices[i] = InvoicesBefore[i]
          /\ StoredInvoices[Len(StoredInvoices)].id = last.value.invoice_id
          /\ StoredInvoices[Len(StoredInvoices)].appointment_id = last.args[1]
    /\ (last.op # "create_invoice" \/ last.raised # "")
       => StoredInvoices = InvoicesBefore

\* the appointment an invoice refers to has just been deleted
C23_Witness ==
    /\ last.op = "delete"
    /\ last.raised = ""
    /\ last.value = TRUE
    /\ \E i \in 1..Len(StoredInvoices) :
          StoredInvoices[i].appointment_id = last.args[1]

(***************************************************************************)
(* C24: whenever find_by_appointment returns, it returns None if no stored *)
(* invoice has the given appointment id, and otherwise the one invoice     *)
(* among those with that appointment id that was created first (the        *)
(* lowest invoice id), with its amount, status and created_at.             *)
(***************************************************************************)
InvoicesOf(appointment_id) ==
    {i \in 1..Len(StoredInvoices) : StoredInvoices[i].appointment_id = appointment_id}

C24_FindByAppointmentFirstMatch ==
    (last.op = "find_by_appointment" /\ last.raised = "")
    => IF InvoicesOf(last.args[1]) = {}
       THEN last.value = None
       ELSE /\ last.value # None
            /\ last.value.appointment_id = last.args[1]
            /\ \E i \in InvoicesOf(last.args[1]) :
                  /\ last.value.id = StoredInvoices[i].id
                  /\ last.value.amount = StoredInvoices[i].amount
                  /\ last.value.status = StoredInvoices[i].status
                  /\ isoformat(last.value.created_at) = StoredInvoices[i].created_at
                  /\ \A j \in InvoicesOf(last.args[1]) :
                        i <= j /\ StoredInvoices[i].id <= StoredInvoices[j].id

C24_Witness ==
    /\ last.op = "find_by_appointment"
    /\ last.raised = ""
    /\ Cardinality(InvoicesOf(last.args[1])) = 2
    /\ last.value.id = 1
    /\ StoredInvoices[1].amount # StoredInvoices[2].amount

(***************************************************************************)
(* C25: the fixed clock's held time only moves forward: after every        *)
(* advance call, whatever its hours and days, now() is not earlier than it *)
(* was before the call; and no other call, the calls that read now()       *)
(* included, changes the held time.                                        *)
(***************************************************************************)
C25_ClockOnlyMovesForward ==
    /\ last.op = "advance" => now >= last.time_before
    /\ last.op # "advance" => now = last.time_before

\* the calls that reach a store method: the four repository methods, the two
\* invoice methods, and create_appointment once its validation has passed
StoreOperation ==
    \/ last.op \in {"find_by_id", "find_all", "delete", "find_by_appointment",
                    "create_invoice"}
    \/ /\ last.op = "create_appointment"
       /\ last.raised \notin {ValueErrorService, ValueErrorEmail}

(***************************************************************************)
(* C26: each store operation opens one connection, executes exactly one    *)
(* statement on it and closes it: when the operation has ended, with a     *)
(* value or with a storage error, every connection it opened has been      *)
(* closed.                                                                 *)
(***************************************************************************)
C26_StoreOperationClosesItsConnection ==
    StoreOperation =>
        /\ last.connections.opened = 1
        /\ last.connections.statements = 1
        /\ last.connections.closed = last.connections.opened

(***************************************************************************)
(* C27: create_appointment checks the service type before the contact:     *)
(* with a service type outside the fixed set and a contact that is not     *)
(* well formed, the error raised is the service error, whose message names *)
(* the given service type and lists the valid values; and a call that ends *)
(* in either validation error has changed no database file and neither the *)
(* e-mail log nor the notification log.                                    *)
(***************************************************************************)
C27_ServiceTypeValidatedFirst ==
    /\ (/\ last.op = "create_appointment"
        /\ ~InFixedSet(last.args[3])
        /\ ~WellFormed(last.args[2]))
       => /\ last.raised = ValueErrorService
          /\ last.message[2] = last.args[3]
          /\ {last.message[4][i] : i \in 1..Len(last.message[4])} =
                {"oil_change", "brake_check", "tire_rotation", "full_service"}
          /\ NothingSent
    /\ (/\ last.op = "create_appointment"
        /\ last.raised \in {ValueErrorService, ValueErrorEmail})
       => NothingSent

C27_Witness ==
    /\ last.op = "create_appointment"
    /\ ~InFixedSet(last.args[3])
    /\ LacksAt(last.args[2])
    /\ last.raised = ValueErrorService
    /\ call_count > 0
    /\ StoreCount > 0

\* the ids of the users in a list of users
IdsOf(d) == {d[i].id : i \in 1..Len(d)}

\* the users of a list that have this cedula
UsersWith(d, cedula) == {i \in 1..Len(d) : d[i].cedula = cedula}

(***************************************************************************)
(* C28: through the mock connection, every crear call returns an id that   *)
(* no user already held by the connection has, so after any sequence of    *)
(* crear calls the users of the mock data have pairwise distinct ids.      *)
(***************************************************************************)
C28_CrearReturnsFreshId ==
    /\ user_call.op = "crear" => user_call.value \notin IdsOf(user_call.before)
    /\ \A i, j \in 1..Len(data) : i # j => data[i].id # data[j].id

(***************************************************************************)
(* C29: the mock connection changes the rows the SQL statement would:      *)
(* after eliminar(c) has returned true no user with cedula c remains, and  *)
(* after actualizar(c, n) has returned true every user with cedula c has   *)
(* the name n, also when earlier crear calls inserted c more than once.    *)
(***************************************************************************)
C29_MockChangesEveryMatchingRow ==
    /\ (user_call.op = "eliminar" /\ user_call.value)
           => UsersWith(data, user_call.args[1]) = {}
    /\ (user_call.op = "actualizar" /\ user_call.value)
           => \A i \in UsersWith(data, user_call.args[1]) :
                  data[i].nombre = user_call.args[2]

====
